---- MODULE Spec2Model ----
(***************************************************************************)
(* A model of the mally command framework: the CommandRegistry             *)
(* (packages/mally/src/registry.ts) and the MallyHandler dispatch engine   *)
(* (packages/mally/src/handler.ts).                                        *)
(*                                                                         *)
(* handler.ts holds two revisions of MallyHandler.  Revision 1 (lines      *)
(* 37-375) has a message adapter and a middleware chain; revision 2        *)
(* (lines 409-728) has guards, onCooldown and the mention prefix.          *)
(* options.version says which of the two classes the handler was built     *)
(* from.                                                                   *)
(*                                                                         *)
(* Strings are sequences of one-character strings, so that toLowerCase is  *)
(* modelled by what it does to each character.                             *)
(***************************************************************************)
EXTENDS Integers, Sequences, FiniteSets, TLC

VARIABLES
    commands,     \* CommandRegistry.commands : lower-cased name -> RegisteredCommand
    aliases,      \* CommandRegistry.aliases  : lower-cased alias -> lower-cased name
    lastGet,      \* the argument and result of the latest registry.get call
    options,      \* the MallyHandlerOptions the handler was constructed with
    owners,       \* MallyHandler.owners     : set of user ids
    middlewares,  \* MallyHandler.middlewares: list of global middlewares (revision 1)
    cooldowns,    \* MallyHandler.cooldowns  : command name -> (user id -> timestamp)
    now,          \* the value Date.now() returns
    inv,          \* the dispatch calls in flight, one record per call
    dir,          \* the command class files present under commandsDir
    scan,         \* the reload() call in progress, if any
    parse,        \* the arguments and result of the latest parseMessage call
    loader,       \* a loadFromDirectory call over module files, and the instances' metadata
    built         \* the arguments and result of the latest buildCommandMetadata call

regVars == <<commands, aliases, lastGet>>

handlerVars == <<options, owners, middlewares, cooldowns, now, inv, dir, scan, parse, loader, built>>

vars == <<commands, aliases, lastGet, options, owners, middlewares, cooldowns, now, inv,
          dir, scan, parse, loader, built>>

----------------------------------------------------------------------------
(* Maps (JavaScript Map) as functions over their key set.                  *)

EmptyMap == [k \in {} |-> k]

Has(m, k) == k \in DOMAIN m

Put(m, k, v) == [x \in (DOMAIN m) \cup {k} |-> IF x = k THEN v ELSE m[x]]

\* The value JavaScript calls undefined.
Undefined == [undefined |-> TRUE]

MapGet(m, k) == IF Has(m, k) THEN m[k] ELSE Undefined

----------------------------------------------------------------------------
(* String.prototype.toLowerCase over the modelled alphabet.                *)

LowerChar(c) ==
    CASE c = "A" -> "a"
      [] c = "B" -> "b"
      [] c = "C" -> "c"
      [] c = "D" -> "d"
      [] c = "M" -> "m"
      [] c = "N" -> "n"
      [] c = "O" -> "o"
      [] c = "P" -> "p"
      [] OTHER   -> c

ToLowerCase(s) == [i \in DOMAIN s |-> LowerChar(s[i])]

----------------------------------------------------------------------------
(* CommandRegistry                                                         *)

\* The alias loop leaving at the first colliding alias instead of skipping it.
RECURSIVE AddAliasesUntilCollision(_, _, _, _)
AddAliasesUntilCollision(als, cmds, list, name) ==
    IF list = << >> THEN als
    ELSE LET aliasLower == [i \in DOMAIN Head(list) |-> LowerChar(Head(list)[i])]
         IN  IF aliasLower \in DOMAIN als \/ aliasLower \in DOMAIN cmds
               THEN als
               ELSE AddAliasesUntilCollision(
                        [x \in (DOMAIN als) \cup {aliasLower} |->
                            IF x = aliasLower THEN name ELSE als[x]],
                        cmds, Tail(list), name)

\* The alias loop of register (registry.ts 127-134): cmds already holds the
\* new command; als is the alias map built so far.
RECURSIVE AddAliases(_, _, _, _)
AddAliases(als, cmds, list, name) ==
    IF list = << >> THEN als
    ELSE LET aliasLower == ToLowerCase(Head(list))
         IN  AddAliases(IF Has(als, aliasLower) \/ Has(cmds, aliasLower)
                          THEN als
                          ELSE Put(als, aliasLower, name),
                        cmds, Tail(list), name)

\* register inserting the aliases of a command whose name is taken.
RegisterAliasesOfRejected(reg, instance, metadata) ==
    LET name == ToLowerCase(metadata.name)
        cmds == IF Has(reg.commands, name) THEN reg.commands
                ELSE Put(reg.commands, name,
                         [instance |-> instance, metadata |-> metadata])
    IN  [commands |-> cmds,
         aliases  |-> AddAliases(reg.aliases, cmds, metadata.aliases, name)]

\* register(instance, metadata): the registry [commands, aliases] after the call.
Register(reg, instance, metadata) ==
    LET name == ToLowerCase(metadata.name)
    IN  IF Has(reg.commands, name)
          THEN reg
          ELSE LET cmds == Put(reg.commands, name,
                               [instance |-> instance, metadata |-> metadata])
               IN  [commands |-> cmds,
                    aliases  |-> AddAliases(reg.aliases, cmds, metadata.aliases, name)]

\* get(name): alias resolution first, then the command map.
Get(reg, name) ==
    LET lowerName    == ToLowerCase(name)
        resolvedName == IF Has(reg.aliases, lowerName)
                          THEN reg.aliases[lowerName] ELSE lowerName
    IN  MapGet(reg.commands, resolvedName)

\* clear() that empties the command map only.
ClearCommandsOnly(reg) ==
    [ commands |-> EmptyMap,
      aliases  |-> IF "aliases" \in DOMAIN reg THEN reg.aliases ELSE EmptyMap ]

\* clear(): both maps emptied in one synchronous call.
Clear(reg) == [commands |-> EmptyMap, aliases |-> EmptyMap]

Registry == [commands |-> commands, aliases |-> aliases]

----------------------------------------------------------------------------
(* Metadata resolver (decorators) and the commands directory               *)

\* A field of an options object: the value when present, else the default
\* (the ?? operator).
Opt(opts, key, default) == IF key \in DOMAIN opts THEN opts[key] ELSE default

CommandSuffix == <<"c", "o", "m", "m", "a", "n", "d">>

\* className.replace(/Command$/i, '').toLowerCase()
DerivedName(className) ==
    LET n == Len(className)
        k == Len(CommandSuffix)
        stripped == IF n >= k /\ ToLowerCase(SubSeq(className, n - k + 1, n)) = CommandSuffix
                      THEN SubSeq(className, 1, n - k)
                      ELSE className
    IN  ToLowerCase(stripped)

\* buildCommandMetadata with || in place of ?? for the name: an empty
\* name in the options gives way to the derived one.
BuildCommandMetadataFalsyName(className, opts, category) ==
    [ name        |-> IF "name" \in DOMAIN opts /\ opts.name # << >>
                        THEN opts.name ELSE DerivedName(className),
      description |-> Opt(opts, "description", "No description provided"),
      aliases     |-> Opt(opts, "aliases", << >>),
      permissions |-> Opt(opts, "permissions", << >>),
      category    |-> Opt(opts, "category",
                          IF category = << >> THEN "uncategorized" ELSE category[1]),
      cooldown    |-> Opt(opts, "cooldown", 0),
      nsfw        |-> Opt(opts, "nsfw", FALSE),
      ownerOnly   |-> Opt(opts, "ownerOnly", FALSE) ]

\* category is the directory-derived category: <<c>>, or << >> for undefined.
BuildCommandMetadata(className, opts, category) ==
    [ name        |-> Opt(opts, "name", DerivedName(className)),
      description |-> Opt(opts, "description", "No description provided"),
      aliases     |-> Opt(opts, "aliases", << >>),
      permissions |-> Opt(opts, "permissions", << >>),
      category    |-> Opt(opts, "category",
                          IF category = << >> THEN "uncategorized" ELSE category[1]),
      cooldown    |-> Opt(opts, "cooldown", 0),
      nsfw        |-> Opt(opts, "nsfw", FALSE),
      ownerOnly   |-> Opt(opts, "ownerOnly", FALSE) ]

\* parts is the file's path relative to the commands directory, split at
\* the separator.
GetCategoryFromPath(parts) == IF Len(parts) > 1 THEN <<parts[1]>> ELSE << >>

\* The interval a cooldown-bearing command of the directory declares.
Cool == 2

\* The command classes found under commandsDir, in scan order.  guards is
\* the list the @Guard decorators left on the class; onError / onCooldown
\* say whether the class defines the optional method.
CommandClasses ==
    << [ className  |-> <<"P", "i", "C", "o", "m", "m", "a", "n", "d">>,
         path       |-> <<"pi.ts">>,
         opts       |-> [aliases |-> << <<"P">> >>, cooldown |-> Cool],
         hasRun     |-> TRUE,
         guards     |-> << >>,
         onError    |-> FALSE,
         onCooldown |-> FALSE ],
       [ className  |-> <<"B", "a", "n">>,
         path       |-> <<"mod", "ban.ts">>,
         opts       |-> [name |-> <<"b", "a">>, aliases |-> << <<"b">> >>,
                         cooldown |-> Cool, ownerOnly |-> TRUE],
         hasRun     |-> TRUE,
         guards     |-> <<"g1", "g2">>,
         onError    |-> TRUE,
         onCooldown |-> TRUE ],
       [ className  |-> <<"A">>,
         path       |-> <<"mod", "a.ts">>,
         opts       |-> [description |-> "a"],
         hasRun     |-> TRUE,
         guards     |-> <<"g2">>,
         onError    |-> FALSE,
         onCooldown |-> FALSE ] >>

\* Guard classes: whether the guard defines guardFail.
HasGuardFail(g) == g = "g1"

\* Reflect.getMetadata('mally:command:guards', instance.constructor) || []
Guards(instance) == CommandClasses[instance].guards

HasOnError(instance) == CommandClasses[instance].onError

HasOnCooldown(instance) == CommandClasses[instance].onCooldown

\* loadFile for the file holding class number c: the class is instantiated,
\* checked for run, given its metadata and registered.
LoadFile(reg, c) ==
    LET class == CommandClasses[c]
    IN  IF ~class.hasRun THEN reg
        ELSE Register(reg, c,
                      BuildCommandMetadata(class.className, class.opts,
                                           GetCategoryFromPath(class.path)))

\* loadFromDirectory over files c..n of the scan.
RECURSIVE LoadFrom(_, _)
LoadFrom(reg, c) ==
    IF c > Len(CommandClasses) THEN reg ELSE LoadFrom(LoadFile(reg, c), c + 1)

LoadFromDirectory(reg) == LoadFrom(reg, 1)

----------------------------------------------------------------------------
(* loadFile over module files with any exports.  A module file either      *)
(* fails to import or exposes its exports in order; an export is a class   *)
(* the @Command decorator marked or something else, its constructor        *)
(* returns or throws, and its instance has a run method or not.            *)

FnA == [ id |-> "A", decorated |-> TRUE, className |-> <<"A">>,
         opts |-> [description |-> "a"], ctorThrows |-> FALSE, hasRun |-> TRUE ]

FnB == [ id |-> "B", decorated |-> TRUE,
         className |-> <<"B", "C", "o", "m", "m", "a", "n", "d">>,
         opts |-> [cooldown |-> Cool], ctorThrows |-> FALSE, hasRun |-> TRUE ]

\* A decorated class whose constructor throws.
FnT == [ id |-> "T", decorated |-> TRUE, className |-> <<"T">>,
         opts |-> [description |-> "t"], ctorThrows |-> TRUE, hasRun |-> TRUE ]

\* A decorated class without a run method.
FnN == [ id |-> "N", decorated |-> TRUE, className |-> <<"N">>,
         opts |-> [description |-> "n"], ctorThrows |-> FALSE, hasRun |-> FALSE ]

\* An export that is not a decorated class.
FnH == [ id |-> "H", decorated |-> FALSE, className |-> <<"H">>,
         opts |-> [description |-> "h"], ctorThrows |-> FALSE, hasRun |-> FALSE ]

ModuleFile(importOk, exports) ==
    [importOk |-> importOk, path |-> <<"mod", "x.ts">>, exports |-> exports]

\* The module files a scan may come across.
ModuleFiles ==
    { ModuleFile(FALSE, <<FnA>>),
      ModuleFile(TRUE, <<FnA>>),
      ModuleFile(TRUE, <<FnB>>),
      ModuleFile(TRUE, <<FnN>>),
      ModuleFile(TRUE, <<FnT>>),
      ModuleFile(TRUE, <<FnN, FnB>>),
      ModuleFile(TRUE, <<FnT, FnB>>),
      ModuleFile(TRUE, <<FnA, FnT>>),
      ModuleFile(TRUE, <<FnH, FnA>>) }

\* No loadFromDirectory call of this kind was made.
NoLoader == [pc |-> "idle", files |-> << >>, found |-> << >>, metadataOf |-> EmptyMap]

\* The loop of loadFile over the exports that are left, inside its try
\* block.  st.reg is the registry and st.metadataOf the metadata field of
\* each instance that was given one.
RECURSIVE LoadExports(_, _, _)
LoadExports(st, exports, path) ==
    IF exports = << >> THEN st
    ELSE LET fn == Head(exports)
         IN  IF ~fn.decorated THEN LoadExports(st, Tail(exports), path)
             ELSE IF fn.ctorThrows THEN st
             ELSE IF ~fn.hasRun THEN LoadExports(st, Tail(exports), path)
             ELSE LET metadata == BuildCommandMetadata(fn.className, fn.opts,
                                                       GetCategoryFromPath(path))
                  IN  LoadExports([ reg        |-> Register(st.reg, fn.id, metadata),
                                    metadataOf |-> Put(st.metadataOf, fn.id, metadata) ],
                                  Tail(exports), path)

\* loadFile(filePath, baseDir) once the import has settled.
LoadModule(st, file) ==
    IF ~file.importOk THEN st ELSE LoadExports(st, file.exports, file.path)

----------------------------------------------------------------------------
(* MallyHandler: cooldown tracker                                          *)

\* checkCooldown that lets a call through only after the stamp.
CheckCooldownStrictlyAfter(cds, userId, metadata, t) ==
    IF metadata.cooldown <= 0 THEN TRUE
    ELSE IF ~Has(cds, metadata.name) THEN TRUE
    ELSE IF ~Has(cds[metadata.name], userId) THEN TRUE
    ELSE IF cds[metadata.name][userId] = 0 THEN TRUE
    ELSE t > cds[metadata.name][userId]

\* checkCooldown(userId, metadata) at time t.  A stamp of 0 is falsy.
CheckCooldown(cds, userId, metadata, t) ==
    IF metadata.cooldown <= 0 THEN TRUE
    ELSE IF ~Has(cds, metadata.name) THEN TRUE
    ELSE IF ~Has(cds[metadata.name], userId) THEN TRUE
    ELSE IF cds[metadata.name][userId] = 0 THEN TRUE
    ELSE t >= cds[metadata.name][userId]

Max(a, b) == IF a >= b THEN a ELSE b

\* getRemainingCooldown that answers with the whole interval.
GetRemainingCooldownWholeInterval(cds, userId, metadata, t) ==
    IF ~Has(cds, metadata.name) THEN 0
    ELSE IF ~Has(cds[metadata.name], userId) THEN 0
    ELSE IF cds[metadata.name][userId] = 0 THEN 0
    ELSE metadata.cooldown

\* getRemainingCooldown(userId, metadata) at time t.
GetRemainingCooldown(cds, userId, metadata, t) ==
    IF ~Has(cds, metadata.name) THEN 0
    ELSE IF ~Has(cds[metadata.name], userId) THEN 0
    ELSE IF cds[metadata.name][userId] = 0 THEN 0
    ELSE Max(0, cds[metadata.name][userId] - t)

\* setCooldown(userId, metadata) at time t: the sub-map is created lazily.
SetCooldown(cds, userId, metadata, t) ==
    LET withSub == IF Has(cds, metadata.name) THEN cds
                   ELSE Put(cds, metadata.name, EmptyMap)
    IN  Put(withSub, metadata.name,
            Put(withSub[metadata.name], userId, t + metadata.cooldown))

----------------------------------------------------------------------------
(* MallyHandler: one dispatch call                                         *)

\* A dispatch call that has not been made.  lookupScan says what reload()
\* was doing when the call looked its command up.  content is the message text
\* still to be parsed and cmd the registry entry execute found.  The fields
\* after mi record what the call has done so far: trace lists the stages of
\* execute in the order the call went through them, raised the
\* collaborators that raised, gate the stage at which the call ended.
Idle ==
    [ pc |-> "idle", authorId |-> "none", content |-> Undefined,
      commandName |-> << >>, cmd |-> Undefined, gi |-> 0, chain |-> << >>, mi |-> 0,
      trace |-> << >>, guardsRun |-> << >>, guardResults |-> << >>,
      guardFails |-> << >>, mwRun |-> << >>, mwResults |-> << >>, bodyRuns |-> 0, onErrorCalls |-> 0,
      onCooldownCalls |-> << >>, replies |-> << >>, stamped |-> FALSE,
      raised |-> {}, gate |-> "none", result |-> "pending", lookupScan |-> "none" ]

\* The call ends: it returns true or false, or it rejects ("raised").
Finish(iv, result, gate) ==
    [iv EXCEPT !.pc = "done", !.result = result, !.gate = gate]

\* The call rejects with the error collaborator `who` raised.
Reject(iv, who, gate) ==
    Finish([iv EXCEPT !.raised = @ \cup {who}], "raised", gate)

\* The outcome of awaiting a collaborator the call ends with: the call
\* returns false when the collaborator returns, and rejects when it raises.
After(iv, o, who, gate) ==
    IF o = "ok" THEN Finish(iv, "false", gate) ELSE Reject(iv, who, gate)

\* await ctx.reply(text); return false
ReplyAndReturnFalse(iv, kind, o, gate) ==
    After([iv EXCEPT !.replies = Append(@, kind)], o, "reply", gate)

\* The owner gate reading the owners the handler was constructed with.
OwnerBlockedByInitialOwners(metadata, authorId, own) ==
    metadata.ownerOnly /\ authorId \notin {"u1"}

\* metadata.ownerOnly && !this.owners.has(ctx.authorId)
OwnerBlocked(metadata, authorId, own) == metadata.ownerOnly /\ authorId \notin own

\* The guards execute reads from the command's class.  Revision 1 has no
\* @Guard decorator and reads none.
GuardsOf(ver, instance) == IF ver = 2 THEN Guards(instance) ELSE << >>

\* instance.run(ctx) is called.
CallBody(iv) ==
    [iv EXCEPT !.pc = "body", !.bodyRuns = @ + 1, !.trace = Append(@, "body")]

\* guardInstance.run(ctx) is called for guard number i of the command.
CallGuard(iv, i) ==
    [iv EXCEPT !.pc = "guard", !.gi = i, !.trace = Append(@, "guard"),
               !.guardsRun = Append(@, Guards(iv.cmd.instance)[i])]

\* Middleware number i of the chain is called (revision 1).
CallMiddleware(iv, i) ==
    [iv EXCEPT !.pc = "mw", !.mi = i, !.trace = Append(@, "middleware"),
               !.mwRun = Append(@, iv.chain[i])]

\* buildMiddlewareChain and chain(): the built-in permission middleware
\* runs and calls next() at once, which calls the first global middleware,
\* or the command body when there is none.
StartChain(iv, mws) ==
    LET iv1 == [iv EXCEPT !.chain = mws, !.mwRun = <<"permission">>,
                          !.trace = Append(@, "middleware")]
    IN  IF mws = << >> THEN CallBody(iv1) ELSE CallMiddleware(iv1, 1)

\* The cooldown check and what follows it in the same synchronous run.
CooldownGate(iv, cds, mws, t, ver, o) ==
    LET md  == iv.cmd.metadata
        iv1 == [iv EXCEPT !.trace = Append(@, "cooldown")]
    IN  IF ~CheckCooldown(cds, iv.authorId, md, t)
          THEN LET remaining == GetRemainingCooldown(cds, iv.authorId, md, t)
               IN  IF ver = 2 /\ HasOnCooldown(iv.cmd.instance)
                     THEN After([iv1 EXCEPT !.onCooldownCalls = Append(@, remaining)],
                                o, "onCooldown", "cooldown")
                     ELSE ReplyAndReturnFalse(iv1, <<"cooldown", remaining>>, o, "cooldown")
          ELSE IF ver = 2 THEN CallBody(iv1)
          ELSE StartChain(iv1, mws)

\* execute answering an unknown command name with a notice.
ExecuteStartReplyOnMiss(iv, reg, own, cds, mws, t, ver, o) ==
    LET registered == Get(reg, iv.commandName)
        iv0 == [iv EXCEPT !.trace = Append(@, "lookup")]
    IN  IF registered = Undefined
          THEN ReplyAndReturnFalse(iv0, <<"unknown-command">>, o, "lookup")
        ELSE LET iv1 == [iv0 EXCEPT !.cmd = registered, !.trace = Append(@, "owner")]
             IN  IF OwnerBlocked(registered.metadata, iv.authorId, own)
                   THEN ReplyAndReturnFalse(iv1, <<"owner-only">>, o, "owner")
                 ELSE IF GuardsOf(ver, registered.instance) # << >>
                   THEN CallGuard(iv1, 1)
                 ELSE CooldownGate(iv1, cds, mws, t, ver, o)

\* execute with the cooldown check moved before the owner check.
ExecuteStartCooldownFirst(iv, reg, own, cds, mws, t, ver, o) ==
    LET registered == Get(reg, iv.commandName)
        iv0 == [iv EXCEPT !.trace = Append(@, "lookup")]
    IN  IF registered = Undefined THEN Finish(iv0, "false", "lookup")
        ELSE LET iv1 == [iv0 EXCEPT !.cmd = registered, !.trace = Append(@, "cooldown")]
                 iv2 == [iv1 EXCEPT !.trace = Append(@, "owner")]
             IN  IF ~CheckCooldown(cds, iv.authorId, registered.metadata, t)
                   THEN ReplyAndReturnFalse(iv1, <<"cooldown", 0>>, o, "cooldown")
                 ELSE IF OwnerBlocked(registered.metadata, iv.authorId, own)
                   THEN ReplyAndReturnFalse(iv2, <<"owner-only">>, o, "owner")
                 ELSE IF GuardsOf(ver, registered.instance) # << >>
                   THEN CallGuard(iv2, 1)
                 ELSE IF ver = 2 THEN CallBody(iv2)
                 ELSE StartChain(iv2, mws)

\* execute writing the canonical name of the command it found into ctx.
ExecuteStartCanonicalName(iv, reg, own, cds, mws, t, ver, o) ==
    LET registered == Get(reg, iv.commandName)
        iv0 == [iv EXCEPT !.trace = Append(@, "lookup")]
    IN  IF registered = Undefined THEN Finish(iv0, "false", "lookup")
        ELSE LET iv1 == [iv0 EXCEPT !.cmd = registered,
                                    !.commandName = registered.metadata.name,
                                    !.trace = Append(@, "owner")]
             IN  IF OwnerBlocked(registered.metadata, iv.authorId, own)
                   THEN ReplyAndReturnFalse(iv1, <<"owner-only">>, o, "owner")
                 ELSE IF GuardsOf(ver, registered.instance) # << >>
                   THEN CallGuard(iv1, 1)
                 ELSE CooldownGate(iv1, cds, mws, t, ver, o)

\* execute(ctx) from its first line to its first await.
ExecuteStart(iv, reg, own, cds, mws, t, ver, o) ==
    LET registered == Get(reg, iv.commandName)
        iv0 == [iv EXCEPT !.trace = Append(@, "lookup")]
    IN  IF registered = Undefined THEN Finish(iv0, "false", "lookup")
        ELSE LET iv1 == [iv0 EXCEPT !.cmd = registered, !.trace = Append(@, "owner")]
             IN  IF OwnerBlocked(registered.metadata, iv.authorId, own)
                   THEN ReplyAndReturnFalse(iv1, <<"owner-only">>, o, "owner")
                 ELSE IF GuardsOf(ver, registered.instance) # << >>
                   THEN CallGuard(iv1, 1)
                 ELSE CooldownGate(iv1, cds, mws, t, ver, o)

\* execute resumes after guardInstance.run(ctx) settled with r.
GuardResume(iv, r, cds, mws, t, ver, o) ==
    LET g   == Guards(iv.cmd.instance)[iv.gi]
        iv1 == [iv EXCEPT !.guardResults = Append(@, r)]
    IN  IF r = "raise" THEN Reject(iv1, "guard", "guard")
        ELSE IF r = "false"
          THEN IF HasGuardFail(g)
                 THEN After([iv1 EXCEPT !.guardFails = Append(@, g)], o, "guardFail", "guard")
                 ELSE Finish(iv1, "false", "guard")
        ELSE IF iv.gi < Len(Guards(iv.cmd.instance)) THEN CallGuard(iv1, iv.gi + 1)
        ELSE CooldownGate(iv1, cds, mws, t, ver, o)

\* The catch block of execute, entered with the error `who` raised.
CatchError(iv, who, o) ==
    LET iv1 == [iv EXCEPT !.raised = @ \cup {who}]
    IN  IF HasOnError(iv.cmd.instance)
          THEN After([iv1 EXCEPT !.onErrorCalls = @ + 1], o, "onError", "error")
          ELSE ReplyAndReturnFalse(iv1, <<"error">>, o, "error")

\* The chain settled without raising: the cooldown is stamped and execute
\* returns true.
Succeed(iv) ==
    Finish([iv EXCEPT !.stamped = iv.cmd.metadata.cooldown > 0], "true", "handled")

\* The tracker stamped whatever cooldown the command declares.
StampAfterAnyCooldown(iv, cds, t) == SetCooldown(cds, iv.authorId, iv.cmd.metadata, t)

\* The tracker stamped under the name the caller typed.
StampAfterByTypedName(iv, cds, t) ==
    IF iv.cmd.metadata.cooldown > 0
      THEN SetCooldown(cds, iv.authorId, [iv.cmd.metadata EXCEPT !.name = iv.commandName], t)
      ELSE cds

\* The cooldown tracker after a call that returned true at time t.
StampAfter(iv, cds, t) ==
    IF iv.cmd.metadata.cooldown > 0
      THEN SetCooldown(cds, iv.authorId, iv.cmd.metadata, t)
      ELSE cds

\* execute resumes after instance.run(ctx) settled with r.  In revision 2
\* the await sits before the try block.
BodyResume(iv, r, ver, o) ==
    IF r = "ok" THEN Succeed(iv)
    ELSE IF ver = 2 THEN Reject(iv, "body", "body")
    ELSE CatchError(iv, "body", o)

\* A chain in which a middleware that returns without calling next() does
\* not stop the middlewares after it.
MiddlewareResumeSkipIgnored(iv, r, o) ==
    LET iv1 == [iv EXCEPT !.mwResults = Append(@, r)]
    IN  IF r \in {"next", "skip"}
          THEN IF iv.mi < Len(iv.chain) THEN CallMiddleware(iv1, iv.mi + 1)
               ELSE CallBody(iv1)
        ELSE CatchError(iv1, "middleware", o)

\* A chain in which a middleware that returns without calling next() makes
\* execute report the message as unhandled.
MiddlewareResumeSkipUnhandled(iv, r, o) ==
    LET iv1 == [iv EXCEPT !.mwResults = Append(@, r)]
    IN  IF r = "next"
          THEN IF iv.mi < Len(iv.chain) THEN CallMiddleware(iv1, iv.mi + 1)
               ELSE CallBody(iv1)
        ELSE IF r = "skip" THEN Finish(iv1, "false", "handled")
        ELSE CatchError(iv1, "middleware", o)

\* Middleware number mi settles: it called next() (r = "next"), returned
\* without calling it (r = "skip"), or raised.
MiddlewareResume(iv, r, o) ==
    LET iv1 == [iv EXCEPT !.mwResults = Append(@, r)]
    IN  IF r = "next"
          THEN IF iv.mi < Len(iv.chain) THEN CallMiddleware(iv1, iv.mi + 1)
               ELSE CallBody(iv1)
        ELSE IF r = "skip" THEN Succeed(iv1)
        ELSE CatchError(iv1, "middleware", o)

----------------------------------------------------------------------------
(* MallyHandler.parseMessage over strings as character sequences           *)

\* The characters \s matches, over the modelled alphabet.
IsSpace(c) == c \in {" ", "\t"}

\* The characters \w matches, over the modelled alphabet.
IsWord(c) == c \notin {" ", "\t", "!", "<", "@", ">"}

\* rawContent.startsWith(prefix)
StartsWith(s, p) == Len(p) <= Len(s) /\ SubSeq(s, 1, Len(p)) = p

\* s.slice(n)
Slice(s, n) == SubSeq(s, n + 1, Len(s))

\* The number of leading characters of s that satisfy \s.
RECURSIVE LeadingSpaces(_)
LeadingSpaces(s) ==
    IF s # << >> /\ IsSpace(Head(s)) THEN 1 + LeadingSpaces(Tail(s)) ELSE 0

\* The number of trailing characters of s that satisfy \s.
RECURSIVE TrailingSpaces(_)
TrailingSpaces(s) ==
    IF s # << >> /\ IsSpace(s[Len(s)])
      THEN 1 + TrailingSpaces(SubSeq(s, 1, Len(s) - 1)) ELSE 0

\* s.trimEnd(): the leading whitespace stays.
TrimEnd(s) == SubSeq(s, 1, Len(s) - TrailingSpaces(s))

\* s.trim()
Trim(s) ==
    LET a == LeadingSpaces(s)
    IN  IF a = Len(s) THEN << >>
        ELSE SubSeq(s, a + 1, Len(s) - TrailingSpaces(s))

\* The number of leading characters of s that satisfy \w.
RECURSIVE LeadingWords(_)
LeadingWords(s) ==
    IF s # << >> /\ IsWord(Head(s)) THEN 1 + LeadingWords(Tail(s)) ELSE 0

\* The number of leading characters of s that do not satisfy \s.
RECURSIVE LeadingNonSpaces(_)
LeadingNonSpaces(s) ==
    IF s # << >> /\ ~IsSpace(Head(s)) THEN 1 + LeadingNonSpaces(Tail(s)) ELSE 0

\* s.split(/\s+/): the pieces between runs of whitespace; a run at either
\* end of s leaves an empty piece there, and "" splits into [""].
RECURSIVE Split(_)
Split(s) ==
    LET k == LeadingNonSpaces(s)
    IN  IF k = Len(s) THEN <<s>>
        ELSE LET rest == Slice(s, k)
             IN  <<SubSeq(s, 1, k)>> \o Split(Slice(rest, LeadingSpaces(rest)))

\* rawContent.match(/^<@!?([\w]+)>\s*/): the captured id and the length of
\* the whole match, or null.  The test /^<@!?[\w]+>/ matches exactly when
\* this does.
MentionMatch(s) ==
    IF ~StartsWith(s, <<"<", "@">>) THEN Undefined
    ELSE LET bang   == IF Len(s) >= 3 /\ s[3] = "!" THEN 1 ELSE 0
             after  == Slice(s, 2 + bang)
             n      == LeadingWords(after)
             tail   == Slice(after, n)
         IN  IF n = 0 \/ tail = << >> \/ Head(tail) # ">" THEN Undefined
             ELSE [ id     |-> SubSeq(after, 1, n),
                    length |-> 2 + bang + n + 1 + LeadingSpaces(Tail(tail)) ]

\* The context parseMessage builds from the text after the prefix, or null.
ContextFrom(withoutPrefix, usedPrefix) ==
    LET tokens == Split(withoutPrefix)
    IN  IF tokens[1] = << >> THEN Undefined
        ELSE [ commandName |-> ToLowerCase(tokens[1]),
               args        |-> Tail(tokens),
               prefix      |-> usedPrefix ]

\* parseMessage once resolvePrefix has returned prefix.  botId is
\* this.client.user?.id, << >> when it is undefined.  Revision 1 knows only
\* the string prefix.
ParseMessage(rawContent, prefix, ver, disableMentionPrefix, botId) ==
    IF StartsWith(rawContent, prefix)
      THEN ContextFrom(Trim(Slice(rawContent, Len(prefix))), prefix)
    ELSE IF ver = 1 THEN Undefined
    ELSE LET mentionMatch == MentionMatch(rawContent)
         IN  IF disableMentionPrefix \/ mentionMatch = Undefined THEN Undefined
             ELSE IF botId # << >> /\ mentionMatch.id = botId
               THEN ContextFrom(Trim(Slice(rawContent, mentionMatch.length)),
                                SubSeq(rawContent, 1, mentionMatch.length))
             ELSE Undefined

\* reload() is not running, and has not run since init().
NoScan ==
    [ pc |-> "idle", files |-> << >>, snapshot |-> DOMAIN CommandClasses,
      returned |-> FALSE ]

----------------------------------------------------------------------------
(* The handler after `new MallyHandler(options)` and `await handler.init()`, *)
(* as the bot's entry script runs them before it subscribes to messages.   *)

MaxInFlight == 2
MaxTime == 2
MaxMiddlewares == 1

Users == {"u1", "u2"}

\* The ids addOwner and removeOwner are called with.
OwnerChanges == {"u2"}

Middlewares == {"m1"}

\* What users type (or pass to execute) as the command name.
TypedNames == { <<"p", "i">>, <<"P">>, <<"b", "a">>, <<"a">>, <<"z">> }

\* The resolved prefix, and the ids client.user?.id takes.
Prefix == <<"!">>

BotIds == { << >>, <<"1">> }

Contents ==
    { Prefix \o n : n \in TypedNames }
      \cup { <<"a">>, <<"<", "@", "1", ">", " ", "a">> }

\* Revision 1 with or without a message adapter, or revision 2.  The prefix
\* is a resolver function, which returns or raises; a literal prefix
\* behaves as a resolver that always returns.
OptionSets ==
    { [version |-> 1, messageAdapter |-> TRUE],
      [version |-> 1, messageAdapter |-> FALSE],
      [version |-> 2, messageAdapter |-> FALSE] }

Outcomes == {"ok", "raise"}

Init ==
    /\ options \in OptionSets
    /\ commands = LoadFromDirectory(Clear(Undefined)).commands
    /\ aliases = LoadFromDirectory(Clear(Undefined)).aliases
    /\ lastGet = [name |-> << >>, result |-> Undefined]
    /\ owners = {"u1"}
    /\ middlewares = << >>
    /\ cooldowns = EmptyMap
    /\ now = 0
    /\ inv = [i \in 1..MaxInFlight |-> Idle]
    /\ dir = DOMAIN CommandClasses
    /\ scan = NoScan
    /\ parse = Undefined
    /\ loader = NoLoader
    /\ built = Undefined

\* What reload() is doing: it has never run, it is running, or it has
\* returned.
ScanPhase ==
    IF scan.pc # "idle" THEN "reloading"
    ELSE IF scan.returned THEN "reloaded" ELSE "initial"

\* Call i after a step that took it to iv2; a call that did its lookup in
\* this step remembers the phase of reload().
Stepped(i, iv2) ==
    IF inv[i].trace = << >> /\ iv2.trace # << >>
      THEN [iv2 EXCEPT !.lookupScan = ScanPhase]
      ELSE iv2

\* One step of call i that leaves the cooldown tracker alone.
Step(i, iv2) ==
    /\ inv' = [inv EXCEPT ![i] = Stepped(i, iv2)]
    /\ UNCHANGED <<commands, aliases, lastGet, options, owners, middlewares, cooldowns, now,
                 dir, scan, parse, loader, built>>

\* One step of call i that stamps the cooldown when the call returns true.
StepAndStamp(i, iv2) ==
    /\ inv' = [inv EXCEPT ![i] = Stepped(i, iv2)]
    /\ cooldowns' = IF iv2.result = "true" THEN StampAfter(inv[i], cooldowns, now)
                    ELSE cooldowns
    /\ UNCHANGED <<commands, aliases, lastGet, options, owners, middlewares, now,
                 dir, scan, parse, loader, built>>

\* execute(ctx) is called directly.
ExecuteCall(i, U, N) ==
    /\ inv[i].pc = "idle"
    /\ \E u \in U, n \in N, o \in Outcomes :
         Step(i, ExecuteStart([Idle EXCEPT !.authorId = u, !.commandName = n],
                              Registry, owners, cooldowns, middlewares, now,
                              options.version, o))

\* handleMessage(rawContent, message, meta) is called: parseMessage awaits
\* resolvePrefix.
HandleMessageCall(i) ==
    /\ inv[i].pc = "idle"
    /\ \E u \in Users, c \in Contents :
         Step(i, [Idle EXCEPT !.pc = "prefix", !.authorId = u, !.content = c])

\* handle(message) is called.  processable: the message has an author and a
\* channel (revision 1: shouldProcess; revision 2: and is not from a bot).
HandleCall(i) ==
    /\ inv[i].pc = "idle"
    /\ \E u \in Users, c \in Contents, processable \in BOOLEAN :
         LET iv == [Idle EXCEPT !.authorId = u, !.content = c]
         IN  Step(i, IF options.version = 1 /\ ~options.messageAdapter
                       THEN Reject(iv, "handle", "adapter")
                     ELSE IF ~processable THEN Finish(iv, "false", "skip")
                     ELSE [iv EXCEPT !.pc = "prefix"])

\* resolvePrefix settles; parseMessage and execute run on.
PrefixResume(i) ==
    /\ inv[i].pc = "prefix"
    /\ \E r \in Outcomes, o \in Outcomes, botId \in BotIds :
         LET iv  == inv[i]
             ctx == ParseMessage(iv.content, Prefix, options.version,
                                 Opt(options, "disableMentionPrefix", FALSE), botId)
         IN  Step(i, IF r = "raise"
                       THEN Reject(iv, "prefix", "prefix")
                     ELSE IF ctx = Undefined THEN Finish(iv, "false", "parse")
                     ELSE ExecuteStart([iv EXCEPT !.commandName = ctx.commandName,
                                                  !.content = Undefined],
                                       Registry, owners, cooldowns, middlewares, now,
                                       options.version, o))

GuardStep(i) ==
    /\ inv[i].pc = "guard"
    /\ \E r \in {"true", "false", "raise"}, o \in Outcomes :
         Step(i, GuardResume(inv[i], r, cooldowns, middlewares, now, options.version, o))

MiddlewareStep(i) ==
    /\ inv[i].pc = "mw"
    /\ \E r \in {"next", "skip", "raise"}, o \in Outcomes :
         StepAndStamp(i, MiddlewareResume(inv[i], r, o))

BodyStep(i) ==
    /\ inv[i].pc = "body"
    /\ \E r \in Outcomes, o \in Outcomes :
         StepAndStamp(i, BodyResume(inv[i], r, options.version, o))

\* The caller has the result; the call is over.
Return(i) ==
    /\ inv[i].pc = "done"
    /\ inv' = [inv EXCEPT ![i] = Idle]
    /\ UNCHANGED <<commands, aliases, lastGet, options, owners, middlewares, cooldowns, now,
                 dir, scan, parse, loader, built>>

Tick ==
    /\ now < MaxTime
    /\ now' = now + 1
    /\ UNCHANGED <<commands, aliases, lastGet, options, owners, middlewares, cooldowns, inv,
                 dir, scan, parse, loader, built>>

AddOwner ==
    \E u \in OwnerChanges :
        /\ owners' = owners \cup {u}
        /\ UNCHANGED <<commands, aliases, lastGet, options, middlewares, cooldowns, now, inv,
                 dir, scan, parse, loader, built>>

RemoveOwner ==
    \E u \in OwnerChanges :
        /\ owners' = owners \ {u}
        /\ UNCHANGED <<commands, aliases, lastGet, options, middlewares, cooldowns, now, inv,
                 dir, scan, parse, loader, built>>

\* use(middleware), revision 1, while the list is shorter than n.
UseUpTo(n) ==
    /\ options.version = 1
    /\ Len(middlewares) < n
    /\ \E m \in Middlewares :
         /\ middlewares' = Append(middlewares, m)
         /\ UNCHANGED <<commands, aliases, lastGet, options, owners, cooldowns, now, inv,
                 dir, scan, parse, loader, built>>

Use == UseUpTo(MaxMiddlewares)

\* Messages handled one at a time: every feature of the handler, one
\* dispatch call in flight.
Next ==
    \/ ExecuteCall(1, Users, TypedNames)
    \/ HandleMessageCall(1)
    \/ HandleCall(1)
    \/ PrefixResume(1)
    \/ GuardStep(1)
    \/ MiddlewareStep(1)
    \/ BodyStep(1)
    \/ Return(1)
    \/ Tick
    \/ AddOwner
    \/ RemoveOwner
    \/ Use

Spec == Init /\ [][Next]_vars

----------------------------------------------------------------------------
(* The registry driven on its own: any sequence of register, get and clear *)
(* calls with names and aliases over a two-letter alphabet in both cases.  *)

MaxAliases == 2
NumInstances == 2

RegNames == { <<"a">>, <<"A">>, <<"b">> }

\* The aliases commands are registered with.
AliasNames == { <<"A">>, <<"b">>, <<"c">> }

RECURSIVE SeqsUpTo(_, _)
SeqsUpTo(S, n) ==
    IF n = 0 THEN { << >> }
    ELSE LET shorter == SeqsUpTo(S, n - 1)
         IN  shorter \cup { Append(s, x) : s \in shorter, x \in S }

RegMetadata ==
    [ name : RegNames, aliases : SeqsUpTo(AliasNames, MaxAliases),
      description : {"No description provided"}, permissions : {<< >>},
      category : {"uncategorized"}, cooldown : {0}, nsfw : {FALSE},
      ownerOnly : {FALSE} ]

NoGet == [name |-> << >>, result |-> Undefined]

RegInit ==
    /\ commands = EmptyMap
    /\ aliases = EmptyMap
    /\ lastGet = NoGet
    /\ options = [version |-> 2, messageAdapter |-> FALSE]
    /\ owners = {}
    /\ middlewares = << >>
    /\ cooldowns = EmptyMap
    /\ now = 0
    /\ inv = [i \in 1..MaxInFlight |-> Idle]
    /\ dir = DOMAIN CommandClasses
    /\ scan = NoScan
    /\ parse = Undefined
    /\ loader = NoLoader
    /\ built = Undefined

RegisterCall ==
    \E instance \in 1..NumInstances, metadata \in RegMetadata :
        LET r == Register(Registry, instance, metadata)
        IN  /\ commands' = r.commands
            /\ aliases' = r.aliases
            /\ lastGet' = NoGet
            /\ UNCHANGED handlerVars

GetCall ==
    \E name \in RegNames \cup AliasNames :
        /\ lastGet' = [name |-> name, result |-> Get(Registry, name)]
        /\ UNCHANGED <<commands, aliases>>
        /\ UNCHANGED handlerVars

ClearCall ==
    /\ commands' = Clear(Registry).commands
    /\ aliases' = Clear(Registry).aliases
    /\ lastGet' = NoGet
    /\ UNCHANGED handlerVars

RegNext == RegisterCall \/ GetCall \/ ClearCall

SpecReg == RegInit /\ [][RegNext]_vars

\* The register calls in which no alias is skipped: every alias is new to
\* the registry, differs from the command's own name and is listed once.
FreshAliases(metadata) ==
    LET keys == [j \in DOMAIN metadata.aliases |-> ToLowerCase(metadata.aliases[j])]
    IN  /\ \A j \in DOMAIN keys :
              keys[j] \notin (DOMAIN commands \cup DOMAIN aliases
                                \cup {ToLowerCase(metadata.name)})
        /\ \A j, k \in DOMAIN keys : j # k => keys[j] # keys[k]

RegisterFresh ==
    \E instance \in 1..NumInstances, metadata \in RegMetadata :
        /\ FreshAliases(metadata)
        /\ LET r == Register(Registry, instance, metadata)
           IN  /\ commands' = r.commands
               /\ aliases' = r.aliases
               /\ lastGet' = NoGet
               /\ UNCHANGED handlerVars

SpecRegFresh == RegInit /\ [][RegisterFresh \/ GetCall \/ ClearCall]_vars

----------------------------------------------------------------------------
(* A CommandRegistry of its own (the class is exported): one               *)
(* loadFromDirectory call over module files, and register called directly  *)
(* with an instance the caller made and a complete metadata record.        *)

MaxFiles == 2

\* What the glob may return.
Directories == SeqsUpTo(ModuleFiles, MaxFiles)

\* Instances passed to register directly; their metadata field was never
\* assigned.
DirectInstances == {"x1"}

DirectMetadata ==
    { BuildCommandMetadata(<<"A">>, [description |-> "direct"], << >>),
      BuildCommandMetadata(<<"Z">>, [aliases |-> << <<"b">> >>], << >>) }

LoadInit ==
    /\ commands = EmptyMap
    /\ aliases = EmptyMap
    /\ lastGet = NoGet
    /\ options = [version |-> 2, messageAdapter |-> FALSE]
    /\ owners = {"u1"}
    /\ middlewares = << >>
    /\ cooldowns = EmptyMap
    /\ now = 0
    /\ inv = [i \in 1..MaxInFlight |-> Idle]
    /\ dir = DOMAIN CommandClasses
    /\ scan = NoScan
    /\ parse = Undefined
    /\ loader = NoLoader
    /\ built = Undefined

LoadVarsUnchanged ==
    UNCHANGED <<lastGet, options, owners, middlewares, cooldowns, now, inv, dir, scan,
                parse, built>>

\* loadFromDirectory(directory) is called and its glob settles.
LoadCall ==
    /\ loader.pc = "idle"
    /\ \E files \in Directories :
         loader' = [loader EXCEPT !.pc = "scan", !.files = files, !.found = files]
    /\ UNCHANGED <<commands, aliases>>
    /\ LoadVarsUnchanged

\* The import of the next file settles and loadFile goes through it.
LoadFileStep ==
    /\ loader.pc = "scan"
    /\ loader.files # << >>
    /\ LET st == LoadModule([reg |-> Registry, metadataOf |-> loader.metadataOf],
                            Head(loader.files))
       IN  /\ commands' = st.reg.commands
           /\ aliases' = st.reg.aliases
           /\ loader' = [loader EXCEPT !.files = Tail(@), !.metadataOf = st.metadataOf]
    /\ LoadVarsUnchanged

\* The last file is done: loadFromDirectory returns.
LoadReturn ==
    /\ loader.pc = "scan"
    /\ loader.files = << >>
    /\ loader' = [loader EXCEPT !.pc = "done"]
    /\ UNCHANGED <<commands, aliases>>
    /\ LoadVarsUnchanged

\* registry.register(instance, metadata) called by the application.
RegisterDirect ==
    /\ \E instance \in DirectInstances, metadata \in DirectMetadata :
         LET r == Register(Registry, instance, metadata)
         IN  /\ commands' = r.commands
             /\ aliases' = r.aliases
    /\ UNCHANGED loader
    /\ LoadVarsUnchanged

LoadNext == LoadCall \/ LoadFileStep \/ LoadReturn \/ RegisterDirect

SpecLoad == LoadInit /\ [][LoadNext]_vars

----------------------------------------------------------------------------
(* buildCommandMetadata called on its own, with the category               *)
(* getCategoryFromPath derives from the file's path.                       *)

\* target.name
MetaClassNames ==
    { <<"P", "i", "C", "o", "m", "m", "a", "n", "d">>,
      <<"B", "a", "n">>,
      <<"P", "i", "n", "g", "C", "O", "M", "M", "A", "N", "D">>,
      <<"C", "o", "m", "m", "a", "n", "d">>,
      <<"C", "o", "m", "m", "a", "n", "d", "A">> }

\* CommandOptions objects: each field is absent or holds one of a few
\* values, falsy ones among them.
MetaOptions ==
    { n @@ d @@ a @@ p @@ c @@ cd @@ ns @@ oo :
        n  \in { EmptyMap, [name |-> <<"N", "a">>], [name |-> << >>] },
        d  \in { EmptyMap, [description |-> "d"] },
        a  \in { EmptyMap, [aliases |-> << <<"b">> >>], [aliases |-> << >>] },
        p  \in { EmptyMap, [permissions |-> <<"Administrator">>] },
        c  \in { EmptyMap, [category |-> "util"] },
        cd \in { EmptyMap, [cooldown |-> 5], [cooldown |-> 0] },
        ns \in { EmptyMap, [nsfw |-> TRUE] },
        oo \in { EmptyMap, [ownerOnly |-> TRUE], [ownerOnly |-> FALSE] } }

\* The file's path relative to the commands directory, split at the
\* separator.
MetaPaths == { <<"x.ts">>, <<"fun", "x.ts">>, <<"fun", "sub", "x.ts">> }

MetaInit ==
    /\ commands = EmptyMap
    /\ aliases = EmptyMap
    /\ lastGet = NoGet
    /\ options = [version |-> 2, messageAdapter |-> FALSE]
    /\ owners = {"u1"}
    /\ middlewares = << >>
    /\ cooldowns = EmptyMap
    /\ now = 0
    /\ inv = [i \in 1..MaxInFlight |-> Idle]
    /\ dir = DOMAIN CommandClasses
    /\ scan = NoScan
    /\ parse = Undefined
    /\ loader = NoLoader
    /\ built = Undefined

\* buildCommandMetadata(target, options, getCategoryFromPath(file, baseDir)),
\* one call in a behaviour.
BuildCall ==
    /\ built = Undefined
    /\ \E className \in MetaClassNames, opts \in MetaOptions, parts \in MetaPaths :
         built' = [ className |-> className,
                    options   |-> opts,
                    parts     |-> parts,
                    metadata  |-> BuildCommandMetadata(className, opts,
                                                       GetCategoryFromPath(parts)) ]
    /\ UNCHANGED <<commands, aliases, lastGet, options, owners, middlewares, cooldowns,
                   now, inv, dir, scan, parse, loader>>

MetaNext == BuildCall

SpecMeta == MetaInit /\ [][MetaNext]_vars

----------------------------------------------------------------------------
(* parseMessage called on its own, with the prefix resolved to "!".  The   *)
(* content is a head (nothing, the prefix, a mention or a broken mention), *)
(* a gap of whitespace and a body.                                         *)

ParseHeads ==
    { << >>,
      <<"!">>,
      <<"<", "@", "1", ">">>,
      <<"<", "@", "!", "1", ">">>,
      <<"<", "@", "2", ">">>,
      <<"<", "@", ">">>,
      <<"<", "@", "1">> }

ParseGaps == { << >>, <<" ">>, <<" ", "\t">> }

ParseBodies ==
    { << >>,
      <<"p", "i", "n", "g">>,
      <<"b", "a", "n", " ", "1", "2", "3", " ", "s", "p", "a", "m">>,
      <<"P", "i", " ", " ", "x", " ">>,
      <<"h", "e", "l", "l", "o">> }

ParseContents == { h \o g \o b : h \in ParseHeads, g \in ParseGaps, b \in ParseBodies }

\* client.user?.id: undefined before login, else the bot's id.
ParseBotIds == { << >>, <<"1">>, <<"2">> }

\* Revision 1, and revision 2 with mention prefixes left enabled or
\* disabled.
ParseOptionSets ==
    { [version |-> 1, messageAdapter |-> FALSE],
      [version |-> 2, messageAdapter |-> FALSE],
      [version |-> 2, messageAdapter |-> FALSE, disableMentionPrefix |-> TRUE] }

ParseInit ==
    /\ commands = LoadFromDirectory(Clear(Undefined)).commands
    /\ aliases = LoadFromDirectory(Clear(Undefined)).aliases
    /\ lastGet = NoGet
    /\ options \in ParseOptionSets
    /\ owners = {"u1"}
    /\ middlewares = << >>
    /\ cooldowns = EmptyMap
    /\ now = 0
    /\ inv = [i \in 1..MaxInFlight |-> Idle]
    /\ dir = DOMAIN CommandClasses
    /\ scan = NoScan
    /\ parse = Undefined
    /\ loader = NoLoader
    /\ built = Undefined

\* parseMessage(rawContent, message, meta) returns ctx.
ParseCall ==
    /\ \E rawContent \in ParseContents, botId \in ParseBotIds :
         parse' = [ rawContent |-> rawContent,
                    botId      |-> botId,
                    ctx        |-> ParseMessage(rawContent, Prefix, options.version,
                                                Opt(options, "disableMentionPrefix", FALSE),
                                                botId) ]
    /\ UNCHANGED <<commands, aliases, lastGet, options, owners, middlewares, cooldowns,
                   now, inv, dir, scan, loader, built>>

ParseNext == ParseCall

SpecParse == ParseInit /\ [][ParseNext]_vars

----------------------------------------------------------------------------
(* reload(): the registry and the cooldown tracker are cleared in the      *)
(* call; loadFromDirectory then awaits the glob and the import of each     *)
(* file, and dispatch calls run at those awaits.  Command files are added  *)
(* and removed under commandsDir while no reload is running.               *)

\* The members of a set of file numbers in scan order.
RECURSIVE InScanOrder(_)
InScanOrder(S) ==
    IF S = {} THEN << >>
    ELSE LET c == CHOOSE x \in S : \A y \in S : x <= y
         IN  <<c>> \o InScanOrder(S \ {c})

\* reload() that leaves the registry as it is.
ReloadCallKeepingRegistry ==
    /\ scan.pc = "idle"
    /\ cooldowns' = EmptyMap
    /\ scan' = [scan EXCEPT !.pc = "glob"]
    /\ UNCHANGED <<commands, aliases, lastGet, options, owners, middlewares, now, inv,
                   dir, parse, loader, built>>

\* reload() is called: clear() twice, then loadFromDirectory starts.
ReloadCall ==
    /\ scan.pc = "idle"
    /\ commands' = Clear(Registry).commands
    /\ aliases' = Clear(Registry).aliases
    /\ cooldowns' = EmptyMap
    /\ scan' = [scan EXCEPT !.pc = "glob"]
    /\ UNCHANGED <<lastGet, options, owners, middlewares, now, inv, dir, parse, loader, built>>

\* The glob settles with the files present.
GlobStep ==
    /\ scan.pc = "glob"
    /\ scan' = [scan EXCEPT !.pc = "load", !.files = InScanOrder(dir), !.snapshot = dir]
    /\ UNCHANGED <<commands, aliases, lastGet, options, owners, middlewares, cooldowns,
                   now, inv, dir, parse, loader, built>>

\* The import of the next file settles and loadFile registers its class.
LoadStep ==
    /\ scan.pc = "load"
    /\ scan.files # << >>
    /\ LET r == LoadFile(Registry, Head(scan.files))
       IN  /\ commands' = r.commands
           /\ aliases' = r.aliases
    /\ scan' = [scan EXCEPT !.files = Tail(@)]
    /\ UNCHANGED <<lastGet, options, owners, middlewares, cooldowns, now, inv, dir, parse, loader, built>>

\* loadFromDirectory has loaded the last file: reload() returns.
ReloadReturn ==
    /\ scan.pc = "load"
    /\ scan.files = << >>
    /\ scan' = [scan EXCEPT !.pc = "idle", !.returned = TRUE]
    /\ UNCHANGED <<commands, aliases, lastGet, options, owners, middlewares, cooldowns,
                   now, inv, dir, parse, loader, built>>

\* A command file is removed from, or put back under, commandsDir.
DirChange ==
    /\ scan.pc = "idle"
    /\ \E c \in DOMAIN CommandClasses :
         dir' = IF c \in dir THEN dir \ {c} ELSE dir \cup {c}
    /\ UNCHANGED <<commands, aliases, lastGet, options, owners, middlewares, cooldowns,
                   now, inv, scan, parse, loader, built>>

ReloadUsers == {"u1"}

ReloadNames == { <<"p", "i">>, <<"P">>, <<"a">> }

ReloadNext ==
    \/ ExecuteCall(1, ReloadUsers, ReloadNames)
    \/ GuardStep(1)
    \/ BodyStep(1)
    \/ Return(1)
    \/ ReloadCall
    \/ GlobStep
    \/ LoadStep
    \/ ReloadReturn
    \/ DirChange

SpecReload == Init /\ [][ReloadNext]_vars

----------------------------------------------------------------------------
(* Dispatch, reload() and the owner operations together.                   *)

OwnerNames == { <<"b", "a">>, <<"a">> }

OwnersNext ==
    \/ ExecuteCall(1, Users, OwnerNames)
    \/ GuardStep(1)
    \/ BodyStep(1)
    \/ Return(1)
    \/ AddOwner
    \/ RemoveOwner
    \/ ReloadCall
    \/ GlobStep
    \/ LoadStep
    \/ ReloadReturn

SpecOwners == Init /\ [][OwnersNext]_vars

----------------------------------------------------------------------------
(* execute calls by canonical names and by aliases, from two users, while  *)
(* the clock advances and the owner set changes.                           *)

SharedNames == { <<"p", "i">>, <<"P">>, <<"b", "a">>, <<"b">> }

SharedNext ==
    \/ ExecuteCall(1, Users, SharedNames)
    \/ GuardStep(1)
    \/ BodyStep(1)
    \/ Return(1)
    \/ Tick
    \/ AddOwner
    \/ RemoveOwner

SpecShared == Init /\ [][SharedNext]_vars

----------------------------------------------------------------------------
(* execute calls one after the other while the clock advances.             *)

CoolNames == { <<"p", "i">>, <<"b", "a">>, <<"a">> }

CoolNext ==
    \/ ExecuteCall(1, Users, CoolNames)
    \/ GuardStep(1)
    \/ BodyStep(1)
    \/ Return(1)
    \/ Tick

SpecCool == Init /\ [][CoolNext]_vars

----------------------------------------------------------------------------
(* The middleware chain of revision 1: a handler constructed with a list   *)
(* of middlewares, to which use() adds.                                    *)

MaxChain == 2

\* options.middlewares ?? []
ConstructorLists == { << >>, <<"m2">> }

ChainUsers == {"u1"}

ChainNames == { <<"a">>, <<"p", "i">> }

ChainInit ==
    /\ options = [version |-> 1, messageAdapter |-> FALSE]
    /\ commands = LoadFromDirectory(Clear(Undefined)).commands
    /\ aliases = LoadFromDirectory(Clear(Undefined)).aliases
    /\ lastGet = [name |-> << >>, result |-> Undefined]
    /\ owners = {"u1"}
    /\ middlewares \in ConstructorLists
    /\ cooldowns = EmptyMap
    /\ now = 0
    /\ inv = [i \in 1..MaxInFlight |-> Idle]
    /\ dir = DOMAIN CommandClasses
    /\ scan = NoScan
    /\ parse = Undefined
    /\ loader = NoLoader
    /\ built = Undefined

ChainNext ==
    \/ ExecuteCall(1, ChainUsers, ChainNames)
    \/ MiddlewareStep(1)
    \/ BodyStep(1)
    \/ Return(1)
    \/ UseUpTo(MaxChain)

SpecChain == ChainInit /\ [][ChainNext]_vars

----------------------------------------------------------------------------
(* Several dispatch calls in flight: one owner sends the commands of the   *)
(* directory faster than they complete.                                    *)

ConcUsers == {"u1"}

ConcNames == { <<"p", "i">>, <<"b", "a">> }

ConcNext ==
    \/ \E i \in 1..MaxInFlight : ExecuteCall(i, ConcUsers, ConcNames)
    \/ \E i \in 1..MaxInFlight : GuardStep(i)
    \/ \E i \in 1..MaxInFlight : MiddlewareStep(i)
    \/ \E i \in 1..MaxInFlight : BodyStep(i)
    \/ \E i \in 1..MaxInFlight : Return(i)
    \/ Tick
    \/ Use

SpecConc == Init /\ [][ConcNext]_vars

----------------------------------------------------------------------------
(* Registry claims, checked under SpecReg                                  *)

\* The lower-cased names under which entry e is declared: its name and
\* every alias its metadata lists.
DeclaredKeys(e) ==
    {ToLowerCase(e.metadata.name)}
      \cup {ToLowerCase(e.metadata.aliases[j]) : j \in DOMAIN e.metadata.aliases}

\* C9: after any sequence of register and clear calls, get(name) and
\* get(alias), for every alias a held command's metadata lists, return that
\* command's entry, in any letter case; get of a string that is no held
\* command's name or alias returns nothing.
C9_GetResolves ==
    lastGet.name # << >> =>
        LET n == ToLowerCase(lastGet.name)
        IN  /\ \A k \in DOMAIN commands :
                 n \in DeclaredKeys(commands[k]) => lastGet.result = commands[k]
            /\ (\A k \in DOMAIN commands : n \notin DeclaredKeys(commands[k]))
                 => lastGet.result = Undefined

\* C10: after any sequence of register and clear calls, no alias key is a
\* key of the command map, and every alias key maps to the name of a held
\* command.
C10_AliasKeysDisjoint ==
    /\ DOMAIN aliases \cap DOMAIN commands = {}
    /\ \A a \in DOMAIN aliases : aliases[a] \in DOMAIN commands

----------------------------------------------------------------------------
(* Dispatch claims                                                         *)

Range(f) == {f[j] : j \in DOMAIN f}

Calls == DOMAIN inv

\* Call i found its command in the registry.
Found(iv) == iv.cmd # Undefined

\* C1: handle, handleMessage and execute always finish by returning a
\* boolean, whatever the collaborators do: no call ends by raising.
C1_NeverRaises ==
    \A i \in Calls : inv[i].pc = "done" => inv[i].result \in {"true", "false"}

\* C2: when the command body raises, onError (if the command defines it) is
\* invoked exactly once and no generic reply is sent; without onError
\* exactly one generic error reply is sent; either way execute returns
\* false and stamps no cooldown.
C2_BodyErrorContained ==
    \A i \in Calls :
        "body" \in inv[i].raised =>
            /\ inv[i].pc = "done"
            /\ inv[i].result = "false"
            /\ ~inv[i].stamped
            /\ IF HasOnError(inv[i].cmd.instance)
                 THEN inv[i].onErrorCalls = 1 /\ inv[i].replies = << >>
                 ELSE inv[i].onErrorCalls = 0 /\ inv[i].replies = << <<"error">> >>

\* The step in which call i looks its command up and finds it.
Dispatched(i) == ~Found(inv[i]) /\ Found(inv'[i])

\* C3: an ownerOnly command invoked by an author who is not an owner at that
\* moment: execute returns false, exactly one owner-only notice is sent, no
\* guard, middleware or body runs and no cooldown is stamped.
C3_OwnerOnly ==
    [][ \A i \in Calls :
          ( /\ Dispatched(i)
            /\ inv'[i].cmd.metadata.ownerOnly
            /\ inv'[i].authorId \notin owners )
          => ( /\ inv'[i].pc = "done"
               /\ inv'[i].result = "false"
               /\ inv'[i].replies = << <<"owner-only">> >>
               /\ inv'[i].guardsRun = << >>
               /\ inv'[i].mwRun = << >>
               /\ inv'[i].bodyRuns = 0
               /\ ~inv'[i].stamped
               /\ cooldowns' = cooldowns ) ]_vars

\* The order of the stages of execute.
Rank(stage) ==
    CASE stage = "lookup"     -> 1
      [] stage = "owner"      -> 2
      [] stage = "guard"      -> 3
      [] stage = "cooldown"   -> 4
      [] stage = "middleware" -> 5
      [] stage = "body"       -> 6

OwnerRejected(iv) == \E j \in DOMAIN iv.replies : iv.replies[j][1] = "owner-only"

GuardRejected(iv) == \E j \in DOMAIN iv.guardResults : iv.guardResults[j] # "true"

CooldownNotified(iv) ==
    \/ iv.onCooldownCalls # << >>
    \/ \E j \in DOMAIN iv.replies : iv.replies[j][1] = "cooldown"

\* C4: within one execute call the stages run in the order lookup, owner
\* gate, guard gate, cooldown gate, middleware chain (then the body); a call
\* the owner gate rejected ran no guard, a call a guard rejected did not
\* consult the cooldown tracker and sent no cooldown notice, and a call the
\* cooldown gate rejected ran no middleware and no body.
C4_GateOrder ==
    \A i \in Calls :
        LET iv == inv[i]
        IN  /\ \A a, b \in DOMAIN iv.trace :
                  a < b => Rank(iv.trace[a]) <= Rank(iv.trace[b])
            /\ OwnerRejected(iv) =>
                  /\ iv.guardsRun = << >>
                  /\ iv.trace = <<"lookup", "owner">>
            /\ GuardRejected(iv) =>
                  /\ "cooldown" \notin Range(iv.trace)
                  /\ ~CooldownNotified(iv)
                  /\ iv.mwRun = << >> /\ iv.bodyRuns = 0
            /\ CooldownNotified(iv) =>
                  /\ iv.mwRun = << >>
                  /\ iv.bodyRuns = 0

\* A call in revision 2 passed the owner gate and both guards and was then
\* rejected by the cooldown gate.
C4_Witness ==
    \E i \in Calls :
        /\ inv[i].pc = "done"
        /\ inv[i].trace = <<"lookup", "owner", "guard", "guard", "cooldown">>
        /\ inv[i].guardResults = <<"true", "true">>
        /\ CooldownNotified(inv[i])
        /\ inv[i].result = "false"

\* C5: the guards of a command run one at a time in registration order; the
\* first guard that returns false ends the evaluation: no later guard and no
\* body runs, no cooldown is stamped and execute returns false.  The body
\* runs only if every guard returned true.
C5_GuardsInOrder ==
    \A i \in Calls :
        Found(inv[i]) =>
            LET iv == inv[i]
                gs == GuardsOf(options.version, iv.cmd.instance)
                allTrue == [j \in DOMAIN gs |-> "true"]
            IN  /\ Len(iv.guardsRun) <= Len(gs)
                /\ iv.guardsRun = SubSeq(gs, 1, Len(iv.guardsRun))
                /\ \A j \in DOMAIN iv.guardResults :
                      j < Len(iv.guardsRun) => iv.guardResults[j] = "true"
                /\ "false" \in Range(iv.guardResults) =>
                      /\ Len(iv.guardsRun) = Len(iv.guardResults)
                      /\ iv.bodyRuns = 0
                      /\ ~iv.stamped
                      /\ iv.pc = "done"
                      /\ iv.result = "false"
                /\ iv.bodyRuns > 0 => iv.guardResults = allTrue

\* C6: a guard whose run raises is treated like a guard that returns false:
\* its guardFail is invoked if it has one, the remaining guards and the body
\* are skipped and execute returns false without raising.
C6_GuardRaiseIsFalse ==
    \A i \in Calls :
        "raise" \in Range(inv[i].guardResults) =>
            LET iv == inv[i]
                g  == iv.guardsRun[Len(iv.guardsRun)]
            IN  /\ Len(iv.guardsRun) = Len(iv.guardResults)
                /\ iv.bodyRuns = 0
                /\ iv.guardFails = (IF HasGuardFail(g) THEN <<g>> ELSE << >>)
                /\ iv.pc = "done"
                /\ iv.result = "false"

\* The step in which call i consults the cooldown tracker.
Gated(i) ==
    /\ "cooldown" \notin Range(inv[i].trace)
    /\ "cooldown" \in Range(inv'[i].trace)

\* The stamp of <<command, user>> in the tracker, 0 when there is none.
StampOf(cds, name, userId) ==
    IF Has(cds, name) /\ Has(cds[name], userId) THEN cds[name][userId] ELSE 0

\* C7: for a command with cooldown c > 0, a call made before the user's
\* stamp is blocked: execute returns false, the body does not run and the
\* stamp is unchanged; a call made when there is no stamp, or at or after
\* it, goes on to run, and when it succeeds it stamps now + c.
C7_CooldownSequence ==
    [][ \A i \in Calls :
          LET md == inv'[i].cmd.metadata
              u  == inv'[i].authorId
              s  == StampOf(cooldowns, md.name, u)
          IN  /\ (Gated(i) /\ md.cooldown > 0 /\ s # 0 /\ now < s) =>
                    /\ inv'[i].pc = "done"
                    /\ inv'[i].result = "false"
                    /\ inv'[i].bodyRuns = 0
                    /\ cooldowns' = cooldowns
              /\ (Gated(i) /\ md.cooldown > 0 /\ (s = 0 \/ now >= s)) =>
                    inv'[i].pc \in {"body", "mw"}
              /\ ( /\ inv[i].pc # "done" /\ inv'[i].pc = "done"
                   /\ inv'[i].result = "true" /\ md.cooldown > 0 ) =>
                    StampOf(cooldowns', md.name, u) = now + md.cooldown ]_vars

\* C8: for a command with cooldown c > 0 and one user, at most one call
\* executes the command body within any window of c milliseconds, also when
\* calls are in flight together: two calls of the same user and command are
\* never both inside the body at once.
C8_MinimumInterval ==
    \A i, j \in Calls :
        ( /\ i # j
          /\ inv[i].pc = "body" /\ inv[j].pc = "body"
          /\ inv[i].cmd.metadata.name = inv[j].cmd.metadata.name
          /\ inv[i].authorId = inv[j].authorId )
        => inv[i].cmd.metadata.cooldown = 0

----------------------------------------------------------------------------
(* Registration claims, checked under SpecReg: every register call the     *)
(* registry could receive next is applied to every state it can be in.     *)

RegInstances == 1..NumInstances

\* Key k is mapped alike in maps m1 and m2: absent in both, or to one value.
SameAt(m1, m2, k) ==
    /\ Has(m1, k) <=> Has(m2, k)
    /\ Has(m1, k) => m1[k] = m2[k]

\* Key k is mapped to v in map m.
MapsTo(m, k, v) == Has(m, k) /\ m[k] = v

\* C11: register with a name whose lower-cased form is already a command
\* key is a no-op: the command map, the alias map and the size are
\* unchanged, the first command's instance and metadata stay, and no alias
\* of the rejected command is inserted.
C11_DuplicateNameIsNoOp ==
    \A instance \in RegInstances, metadata \in RegMetadata :
        LET name == ToLowerCase(metadata.name)
            r    == Register(Registry, instance, metadata)
        IN  Has(commands, name) =>
                /\ r.commands = commands
                /\ r.aliases = aliases
                /\ Cardinality(DOMAIN r.commands) = Cardinality(DOMAIN commands)
                /\ r.commands[name] = commands[name]
                /\ \A j \in DOMAIN metadata.aliases :
                      LET k == ToLowerCase(metadata.aliases[j])
                      IN  SameAt(r.aliases, aliases, k)

\* The registry holds a command, and a register call under the same name,
\* in another spelling, by another instance and with an alias the registry
\* does not know, leaves the registry as it is.
C11_Witness ==
    \E instance \in RegInstances, metadata \in RegMetadata :
        LET name == ToLowerCase(metadata.name)
        IN  /\ Has(commands, name)
            /\ commands[name].instance # instance
            /\ commands[name].metadata.name # metadata.name
            /\ \E j \in DOMAIN metadata.aliases :
                  LET k == ToLowerCase(metadata.aliases[j])
                  IN  ~Has(aliases, k) /\ ~Has(commands, k)
            /\ Register(Registry, instance, metadata) = Registry

\* The lower-cased alias number j of metadata.
AliasKey(metadata, j) == ToLowerCase(metadata.aliases[j])

\* Alias key k collides when the command is registered: it is an alias or
\* a canonical name already (the command's own name included).
Collides(metadata, k) ==
    Has(aliases, k) \/ Has(commands, k) \/ k = ToLowerCase(metadata.name)

\* C12: when register accepts a command, an alias of it that already exists
\* as an alias or a canonical name is skipped alone: the command is
\* inserted, every alias of it that does not collide is inserted, and the
\* mapping of every existing key is left as it was.
C12_CollidingAliasSkipped ==
    \A instance \in RegInstances, metadata \in RegMetadata :
        LET name == ToLowerCase(metadata.name)
            r    == Register(Registry, instance, metadata)
        IN  ~Has(commands, name) =>
                /\ r.commands = Put(commands, name,
                                    [instance |-> instance, metadata |-> metadata])
                /\ \A j \in DOMAIN metadata.aliases :
                      LET k == AliasKey(metadata, j)
                      IN  IF Collides(metadata, k)
                            THEN SameAt(r.aliases, aliases, k)
                            ELSE MapsTo(r.aliases, k, name)
                /\ \A k \in DOMAIN aliases : MapsTo(r.aliases, k, aliases[k])
                /\ DOMAIN r.aliases \subseteq
                      DOMAIN aliases \cup
                        {AliasKey(metadata, j) : j \in DOMAIN metadata.aliases}

\* A command is accepted whose first alias is the name of a command held
\* and whose second alias is new: the second alias is inserted.
C12_Witness ==
    \E instance \in RegInstances, metadata \in RegMetadata :
        LET name == ToLowerCase(metadata.name)
            r    == Register(Registry, instance, metadata)
        IN  /\ ~Has(commands, name)
            /\ Len(metadata.aliases) = 2
            /\ Has(commands, AliasKey(metadata, 1))
            /\ ~Collides(metadata, AliasKey(metadata, 2))
            /\ Has(r.commands, name)
            /\ ~Has(r.aliases, AliasKey(metadata, 1))
            /\ r.aliases[AliasKey(metadata, 2)] = name

----------------------------------------------------------------------------
(* Routing and pipeline claims                                             *)

\* The step in which call i reaches execute and looks its command up.
LookedUp(i) == inv[i].trace = << >> /\ inv'[i].trace # << >>

\* C13: an invocation whose command name is neither a name nor an alias of
\* the registry returns false, sends no reply, runs no guard, middleware or
\* command body and leaves the registry, the owner set and the cooldown
\* tracker unchanged.
C13_UnknownCommandUnhandled ==
    [][ \A i \in Calls :
          (LookedUp(i) /\ Get(Registry, inv'[i].commandName) = Undefined)
          => ( /\ inv'[i].pc = "done"
               /\ inv'[i].result = "false"
               /\ inv'[i].replies = << >>
               /\ inv'[i].guardsRun = << >>
               /\ inv'[i].mwRun = << >>
               /\ inv'[i].bodyRuns = 0
               /\ commands' = commands
               /\ aliases' = aliases
               /\ owners' = owners
               /\ cooldowns' = cooldowns ) ]_vars

\* A call for the name "z", which the registry does not hold, has returned
\* false at the lookup.
C13_Witness ==
    \E i \in Calls :
        /\ inv[i].pc = "done"
        /\ inv[i].commandName = <<"z">>
        /\ Get(Registry, <<"z">>) = Undefined
        /\ inv[i].trace = <<"lookup">>
        /\ inv[i].result = "false"

\* C14: a middleware that returns without invoking its continuation
\* short-circuits the pipeline: no middleware after it in the chain and not
\* the command body is invoked in that invocation.
C14_SkipShortCircuits ==
    \A i \in Calls :
        "skip" \in Range(inv[i].mwResults) =>
            /\ inv[i].mwResults[Len(inv[i].mwResults)] = "skip"
            /\ inv[i].mwRun = <<"permission">> \o SubSeq(inv[i].chain, 1, Len(inv[i].mwResults))
            /\ inv[i].bodyRuns = 0

\* The first of two global middlewares returned without calling next(): the
\* call is over, and neither the second middleware nor the body ran.
C14_Witness ==
    \E i \in Calls :
        /\ inv[i].pc = "done"
        /\ Len(inv[i].chain) = 2
        /\ inv[i].mwResults = <<"skip">>
        /\ inv[i].mwRun = <<"permission", inv[i].chain[1]>>
        /\ inv[i].bodyRuns = 0

\* Sequence s is the beginning of sequence t.
IsPrefix(s, t) == Len(s) <= Len(t) /\ s = SubSeq(t, 1, Len(s))

\* C15: when every interceptor invokes its continuation once, an invocation
\* runs the built-in permission-check interceptor first, then the globally
\* registered middlewares in registration order, then the command body
\* last, each exactly once.
C15_PipelineOrder ==
    \A i \in Calls :
        inv[i].bodyRuns > 0 =>
            /\ inv[i].bodyRuns = 1
            /\ inv[i].mwRun = <<"permission">> \o inv[i].chain
            /\ IsPrefix(inv[i].chain, middlewares)
            /\ inv[i].trace[Len(inv[i].trace)] = "body"

----------------------------------------------------------------------------
(* Claims about reload()                                                   *)

\* The lower-cased name and aliases under which the class of file c is
\* registered.
ClassKeys(c) ==
    DeclaredKeys([metadata |->
        BuildCommandMetadata(CommandClasses[c].className, CommandClasses[c].opts,
                             GetCategoryFromPath(CommandClasses[c].path))])

\* The files whose class answers to the name a call typed.
FilesOf(name) == {c \in DOMAIN CommandClasses : ToLowerCase(name) \in ClassKeys(c)}

\* C16: once reload() has returned, a dispatch for a command whose file is
\* no longer under commandsDir, by its name or by any of its former
\* aliases, finds nothing: it returns false and the body does not run.
C16_RemovedCommandUnhandled ==
    [][ \A i \in Calls :
          ( /\ LookedUp(i)
            /\ scan.pc = "idle"
            /\ scan.returned
            /\ FilesOf(inv'[i].commandName) # {}
            /\ FilesOf(inv'[i].commandName) \cap scan.snapshot = {} )
          => /\ ~Found(inv'[i])
             /\ inv'[i].pc = "done"
             /\ inv'[i].result = "false"
             /\ inv'[i].bodyRuns = 0
             /\ inv'[i].trace = <<"lookup">> ]_vars

\* The file of command pi was removed, reload() returned, and a call then
\* typed the former alias P: it is over, unhandled.
C16_Witness ==
    \E i \in Calls :
        /\ inv[i].lookupScan = "reloaded"
        /\ inv[i].commandName = <<"P">>
        /\ 1 \notin scan.snapshot
        /\ scan.pc = "idle"
        /\ inv[i].pc = "done"
        /\ inv[i].result = "false"
        /\ inv[i].bodyRuns = 0

\* C17: a dispatch that interleaves with reload() never sees an alias that
\* points to a missing command, and a lookup made while no reload is running
\* finds every command of the snapshot the last scan loaded, by its name and
\* by each of its aliases.
C17_ReloadLookupConsistent ==
    /\ [](\A a \in DOMAIN aliases : Has(commands, aliases[a]))
    /\ [][ \A i \in Calls : \A c \in scan.snapshot :
             ( /\ LookedUp(i)
               /\ scan.pc = "idle"
               /\ c \in FilesOf(inv'[i].commandName) )
             => /\ Found(inv'[i])
                /\ inv'[i].cmd.instance = c ]_vars

\* A call typed pi while the first reload() was between its clear and its
\* return, with pi.ts present throughout: it found nothing and is over,
\* unhandled.
C17_Witness ==
    \E i \in Calls :
        /\ inv[i].lookupScan = "reloading"
        /\ scan.pc # "idle"
        /\ ~scan.returned
        /\ 1 \in dir
        /\ inv[i].commandName = <<"p", "i">>
        /\ inv[i].pc = "done"
        /\ inv[i].result = "false"
        /\ ~Found(inv[i])

\* C18: when reload() returns, the cooldown tracker holds no entry,
\* whatever invocations were in flight while the reload was running.
C18_ReloadWipesCooldowns ==
    [][ (scan.pc # "idle" /\ scan'.pc = "idle") => cooldowns' = EmptyMap ]_vars

----------------------------------------------------------------------------
(* Claims about parseMessage                                               *)

\* The positions of s at which a run of non-whitespace begins.
RunStarts(s) ==
    {i \in 1..Len(s) : ~IsSpace(s[i]) /\ (i = 1 \/ IsSpace(s[i - 1]))}

\* The position at which the run that begins at i ends.
RunEnd(s, i) ==
    CHOOSE j \in i..Len(s) :
        /\ \A k \in i..j : ~IsSpace(s[k])
        /\ j = Len(s) \/ IsSpace(s[j + 1])

\* The n-th run of non-whitespace of s.
Token(s, n) ==
    LET i == CHOOSE x \in RunStarts(s) :
                 Cardinality({y \in RunStarts(s) : y < x}) = n - 1
    IN  SubSeq(s, i, RunEnd(s, i))

\* The context the text after a consumed prefix stands for: none when the
\* text holds no token, else the lower-cased first token and the others.
Expected(rest, usedPrefix) ==
    LET n == Cardinality(RunStarts(rest))
    IN  IF n = 0 THEN Undefined
        ELSE [ commandName |-> ToLowerCase(Token(rest, 1)),
               args        |-> [k \in 1..(n - 1) |-> Token(rest, k + 1)],
               prefix      |-> usedPrefix ]

\* The lengths n such that the first n characters of s are a mention token
\* <@id> or <@!id>; there is at most one.
MentionLengths(s) ==
    {n \in 4..Len(s) :
        /\ s[1] = "<" /\ s[2] = "@" /\ s[n] = ">"
        /\ \/ \A k \in 3..(n - 1) : IsWord(s[k])
           \/ n >= 5 /\ s[3] = "!" /\ \A k \in 4..(n - 1) : IsWord(s[k])}

\* The id a mention token of length n at the head of s names.
MentionedId(s, n) == IF s[3] = "!" THEN SubSeq(s, 4, n - 1) ELSE SubSeq(s, 3, n - 1)

Chars(str) ==
    CASE str = "!ping" -> <<"!", "p", "i", "n", "g">>
      [] str = "!ban 123 spam" ->
           <<"!", "b", "a", "n", " ", "1", "2", "3", " ", "s", "p", "a", "m">>
      [] str = "ping" -> <<"p", "i", "n", "g">>
      [] str = "ban" -> <<"b", "a", "n">>
      [] str = "123" -> <<"1", "2", "3">>
      [] str = "spam" -> <<"s", "p", "a", "m">>

\* C19: on content that starts with the resolved prefix, parseMessage
\* strips the prefix, trims the rest and splits it on runs of whitespace;
\* commandName is the lower-cased first token and args are the other
\* tokens in order ("!ping" gives ping and no args, "!ban 123 spam" gives
\* ban and 123, spam).  Content with an empty remainder, or that starts
\* with neither the prefix nor a mention, yields no context.
C19_ParseByPrefix ==
    parse # Undefined =>
        /\ StartsWith(parse.rawContent, Prefix) =>
             parse.ctx = Expected(Slice(parse.rawContent, Len(Prefix)), Prefix)
        /\ (~StartsWith(parse.rawContent, Prefix) /\ MentionLengths(parse.rawContent) = {})
             => parse.ctx = Undefined
        /\ parse.rawContent = Chars("!ping") =>
             /\ parse.ctx # Undefined
             /\ parse.ctx.commandName = Chars("ping")
             /\ parse.ctx.args = << >>
        /\ parse.rawContent = Chars("!ban 123 spam") =>
             /\ parse.ctx # Undefined
             /\ parse.ctx.commandName = Chars("ban")
             /\ parse.ctx.args = <<Chars("123"), Chars("spam")>>

\* parseMessage was called on the prefix, whitespace and "Pi  x ": the
\* context names command pi with the one argument x.
C19_Witness ==
    /\ parse # Undefined
    /\ parse.rawContent = <<"!", " ", "\t", "P", "i", " ", " ", "x", " ">>
    /\ parse.ctx # Undefined
    /\ parse.ctx.commandName = <<"p", "i">>
    /\ parse.ctx.args = << <<"x">> >>
    /\ parse.ctx.prefix = Prefix

\* C20: on content that does not start with the resolved prefix, when
\* mention prefixes are enabled and the content starts with a mention token
\* <@id> or <@!id> whose id is the bot's own id, the consumed prefix is the
\* whole mention token and the command is parsed from the trimmed text
\* after it; when mention prefixes are disabled, the bot's id is unknown or
\* the mentioned id differs, parseMessage yields no context.
C20_ParseByMention ==
    (parse # Undefined /\ ~StartsWith(parse.rawContent, Prefix)) =>
        LET raw == parse.rawContent
        IN  IF /\ ~Opt(options, "disableMentionPrefix", FALSE)
               /\ parse.botId # << >>
               /\ \E n \in MentionLengths(raw) : MentionedId(raw, n) = parse.botId
              THEN \A n \in MentionLengths(raw) :
                     parse.ctx = Expected(Slice(raw, n), SubSeq(raw, 1, n))
              ELSE parse.ctx = Undefined

----------------------------------------------------------------------------
(* Claims about loadFromDirectory and the registry's entries               *)

\* The exports of the scan that are valid commands: decorated classes of
\* imported files whose constructor returns an instance with run.
ValidExports ==
    { fn \in UNION { Range(loader.found[j].exports) :
                       j \in {k \in DOMAIN loader.found : loader.found[k].importOk} } :
        fn.decorated /\ ~fn.ctorThrows /\ fn.hasRun }

\* The name the class of export fn is registered under.
ExportName(fn) == ToLowerCase(Opt(fn.opts, "name", DerivedName(fn.className)))

\* C21: loadFromDirectory is partial-failure tolerant: a unit whose import
\* or instantiation fails, or that is decorated but has no run method, is
\* skipped, the call still completes, and every other valid command the
\* scan discovered, also after the failing one, is registered.
C21_PartialFailureTolerant ==
    loader.pc = "done" => \A fn \in ValidExports : Has(commands, ExportName(fn))

MetadataFields ==
    {"name", "description", "aliases", "permissions", "category", "cooldown", "nsfw",
     "ownerOnly"}

\* The instance has a callable run: the loader checks it, and the type of
\* register's parameter demands it.
HasRun(instance) ==
    \/ instance \in DirectInstances
    \/ \E fn \in {FnA, FnB, FnT, FnN, FnH} : fn.id = instance /\ fn.hasRun

\* C22: every entry of the command map has a callable run and a complete
\* metadata record, and that metadata is the one attached to the instance.
C22_NoPartialEntry ==
    \A k \in DOMAIN commands :
        /\ HasRun(commands[k].instance)
        /\ DOMAIN commands[k].metadata = MetadataFields
        /\ Has(loader.metadataOf, commands[k].instance)
        /\ loader.metadataOf[commands[k].instance] = commands[k].metadata

----------------------------------------------------------------------------
(* Claims about the cooldown tracker and the owner set                     *)

\* The step in which call i ends.
Ends(i) == inv[i].pc # "done" /\ inv'[i].pc = "done"

\* The <<command name, user>> pairs either tracker holds a stamp for.
StampedPairs(cds) == {<<n, u>> \in (DOMAIN cds) \X Users : Has(cds[n], u)}

\* C23: the cooldown tracker is written only by an invocation of a command
\* with cooldown > 0 whose pipeline completed without raising, and then only
\* the entry of that command and author is set, to now + cooldown; a call
\* that ends at the lookup, a gate or the failure containment, and every
\* call of a command with cooldown 0, leaves the tracker unchanged.
C23_CooldownWrittenOnSuccess ==
    [][ /\ cooldowns' # cooldowns =>
             \E i \in Calls :
                 /\ Ends(i)
                 /\ inv'[i].result = "true"
                 /\ inv'[i].cmd.metadata.cooldown > 0
                 /\ \A p \in StampedPairs(cooldowns) \cup StampedPairs(cooldowns') :
                        StampOf(cooldowns', p[1], p[2]) =
                            IF p = <<inv'[i].cmd.metadata.name, inv'[i].authorId>>
                              THEN now + inv'[i].cmd.metadata.cooldown
                              ELSE StampOf(cooldowns, p[1], p[2])
        /\ \A i \in Calls :
             Ends(i) =>
                 IF inv'[i].result = "true" /\ inv'[i].cmd.metadata.cooldown > 0
                   THEN StampOf(cooldowns', inv'[i].cmd.metadata.name, inv'[i].authorId)
                            = now + inv'[i].cmd.metadata.cooldown
                   ELSE cooldowns' = cooldowns ]_vars

\* A call of a cooldown-bearing command has returned true and the tracker
\* holds now + cooldown for its command and author, while a stamp of another
\* command is still there.
C23_Witness ==
    \E i \in Calls :
        /\ inv[i].pc = "done"
        /\ inv[i].result = "true"
        /\ inv[i].cmd.metadata.cooldown > 0
        /\ StampOf(cooldowns, inv[i].cmd.metadata.name, inv[i].authorId)
               = now + inv[i].cmd.metadata.cooldown
        /\ Cardinality(StampedPairs(cooldowns)) > 1


\* C24: the owner set changes only through addOwner and removeOwner:
\* dispatching, reload() and the registry operations leave it unchanged;
\* and the owner gate of each invocation uses the set as it is at that
\* moment.
C24_OwnerSetFrame ==
    [][ /\ ( \/ inv' # inv
             \/ scan' # scan
             \/ commands' # commands
             \/ aliases' # aliases
             \/ cooldowns' # cooldowns ) => owners' = owners
        /\ \A i \in Calls :
             (Dispatched(i) /\ inv'[i].cmd.metadata.ownerOnly) =>
                 (OwnerRejected(inv'[i]) <=> inv'[i].authorId \notin owners) ]_vars

\* User u2, no owner when the handler was built, passed the owner gate of
\* an ownerOnly command and its body ran; u2 has been removed since.
C24_Witness ==
    \E i \in Calls :
        /\ inv[i].authorId = "u2"
        /\ Found(inv[i])
        /\ inv[i].cmd.metadata.ownerOnly
        /\ inv[i].bodyRuns = 1
        /\ "u2" \notin owners

----------------------------------------------------------------------------
(* Claims about buildCommandMetadata                                       *)

\* The class name with a trailing "Command" stripped, lower-cased.
NameOfClass(className) ==
    CASE className = <<"P", "i", "C", "o", "m", "m", "a", "n", "d">> -> <<"p", "i">>
      [] className = <<"B", "a", "n">> -> <<"b", "a", "n">>
      [] className = <<"P", "i", "n", "g", "C", "O", "M", "M", "A", "N", "D">>
           -> <<"p", "i", "n", "g">>
      [] className = <<"C", "o", "m", "m", "a", "n", "d">> -> << >>
      [] className = <<"C", "o", "m", "m", "a", "n", "d", "A">>
           -> <<"c", "o", "m", "m", "a", "n", "d", "a">>

\* The default of a field the options leave out.
DefaultOf(field, className, parts) ==
    CASE field = "name"        -> NameOfClass(className)
      [] field = "description" -> "No description provided"
      [] field = "aliases"     -> << >>
      [] field = "permissions" -> << >>
      [] field = "category"    -> IF Len(parts) > 1 THEN parts[1] ELSE "uncategorized"
      [] field = "cooldown"    -> 0
      [] field = "nsfw"        -> FALSE
      [] field = "ownerOnly"   -> FALSE

\* C25: buildCommandMetadata gives a complete record for any options: a
\* field the options hold is passed through unchanged, and an absent field
\* gets its default: the name from the class name with a trailing "Command"
\* stripped and lower-cased, a placeholder description, empty aliases and
\* permissions, the directory-derived category or else "uncategorized",
\* cooldown 0, nsfw and ownerOnly false.
C25_MetadataDefaults ==
    built # Undefined =>
        /\ DOMAIN built.metadata = MetadataFields
        /\ \A field \in MetadataFields :
             built.metadata[field] =
                 IF field \in DOMAIN built.options
                   THEN built.options[field]
                   ELSE DefaultOf(field, built.className, built.parts)

\* buildCommandMetadata was called for class PingCOMMAND of fun/x.ts with
\* options that hold an empty name and cooldown 0 and nothing else: the
\* empty name and the 0 are kept, the category is fun.
C25_Witness ==
    /\ built # Undefined
    /\ built.className = <<"P", "i", "n", "g", "C", "O", "M", "M", "A", "N", "D">>
    /\ DOMAIN built.options = {"name", "cooldown"}
    /\ built.metadata.name = << >>
    /\ built.metadata.cooldown = 0
    /\ built.metadata.category = "fun"
    /\ built.metadata.description = "No description provided"


\* The remaining times call iv reported, to onCooldown or in the reply.
Reported(iv) ==
    Range(iv.onCooldownCalls)
      \cup {iv.replies[j][2] : j \in {k \in DOMAIN iv.replies : iv.replies[k][1] = "cooldown"}}

\* The step in which the cooldown gate blocks call i.
Blocked(i) == Gated(i) /\ CooldownNotified(inv'[i])

\* C26: when the cooldown gate blocks an invocation of a command with
\* cooldown c, the remaining time it reports equals max(0, stamp - now), is
\* at most c and is strictly greater than the time elapsed since the stamp
\* was written.
C26_RemainingExceedsElapsed ==
    [][ \A i \in Calls :
          Blocked(i) =>
              LET md == inv'[i].cmd.metadata
                  s  == StampOf(cooldowns, md.name, inv'[i].authorId)
              IN  \A r \in Reported(inv'[i]) :
                      /\ r = Max(0, s - now)
                      /\ r <= md.cooldown
                      /\ r > now - (s - md.cooldown) ]_vars

\* C26 as amended: the remaining time reported equals max(0, stamp - now)
\* and is at most c.
C26_RemainingReported ==
    [][ \A i \in Calls :
          Blocked(i) =>
              LET md == inv'[i].cmd.metadata
                  s  == StampOf(cooldowns, md.name, inv'[i].authorId)
              IN  /\ Reported(inv'[i]) # {}
                  /\ \A r \in Reported(inv'[i]) :
                         /\ r = Max(0, s - now)
                         /\ r <= md.cooldown ]_vars

\* A call was blocked one tick after the stamp was written, half way
\* through the interval: it reported a remaining time of 1, which is the
\* time elapsed.
C26_Witness ==
    \E i \in Calls :
        /\ inv[i].pc = "done"
        /\ inv[i].gate = "cooldown"
        /\ Reported(inv[i]) = {1}
        /\ now = 1
        /\ StampOf(cooldowns, inv[i].cmd.metadata.name, inv[i].authorId) = Cool

\* C30: the cooldown check passes exactly when the command has no cooldown,
\* or the tracker holds no stamp for the command and user, or now is at or
\* after the stamp; a stamp is never removed from the tracker, expired or
\* not, and an expired stamp never blocks.
C30_CheckAndLazyExpiry ==
    [][ /\ \A i \in Calls :
             Gated(i) =>
                 LET md == inv'[i].cmd.metadata
                     u  == inv'[i].authorId
                 IN  ~Blocked(i) <=>
                         \/ md.cooldown = 0
                         \/ <<md.name, u>> \notin StampedPairs(cooldowns)
                         \/ now >= cooldowns[md.name][u]
        /\ StampedPairs(cooldowns) \subseteq StampedPairs(cooldowns') ]_vars

\* The stamp of a command and user has expired and is still in the
\* tracker, and a call of that user is running the command's body.
C30_Witness ==
    \E i \in Calls :
        /\ inv[i].pc = "body"
        /\ <<inv[i].cmd.metadata.name, inv[i].authorId>> \in StampedPairs(cooldowns)
        /\ now >= cooldowns[inv[i].cmd.metadata.name][inv[i].authorId]


\* The step in which the cooldown gate rejects call i.
CooldownRejected(i) ==
    Gated(i) /\ ~CheckCooldown(cooldowns, inv'[i].authorId, inv'[i].cmd.metadata, now)

\* C27: when the cooldown gate rejects an invocation, a command that
\* defines onCooldown has it invoked exactly once with the remaining
\* milliseconds and the engine sends no reply; for any other command the
\* reply channel receives exactly one remaining-time message; in both cases
\* execute returns false and the command body is not run.
C27_CooldownRejection ==
    [][ \A i \in Calls :
          CooldownRejected(i) =>
              LET iv == inv'[i]
                  md == iv.cmd.metadata
                  remaining == Max(0, StampOf(cooldowns, md.name, iv.authorId) - now)
              IN  /\ IF options.version = 2 /\ HasOnCooldown(iv.cmd.instance)
                       THEN iv.onCooldownCalls = <<remaining>> /\ iv.replies = << >>
                       ELSE /\ iv.onCooldownCalls = << >>
                            /\ iv.replies = << <<"cooldown", remaining>> >>
                  /\ iv.pc = "done"
                  /\ iv.result = "false"
                  /\ iv.bodyRuns = 0 ]_vars

\* The step in which a guard of call i returns false.
GuardReturnedFalse(i) ==
    /\ inv[i].pc = "guard"
    /\ Len(inv'[i].guardResults) = Len(inv[i].guardResults) + 1
    /\ inv'[i].guardResults[Len(inv'[i].guardResults)] = "false"

\* C28: when a guard returns false, its guardFail is invoked exactly once
\* with the context if it defines one, and no reply is sent at all if it
\* defines none; in both cases execute returns false.
C28_GuardFailure ==
    [][ \A i \in Calls :
          GuardReturnedFalse(i) =>
              LET iv == inv'[i]
                  g  == Guards(iv.cmd.instance)[inv[i].gi]
              IN  /\ IF HasGuardFail(g)
                       THEN iv.guardFails = <<g>>
                       ELSE iv.guardFails = << >> /\ iv.replies = << >>
                  /\ iv.pc = "done"
                  /\ iv.result = "false" ]_vars


\* The command name a message spells: the first token after the prefix or
\* after the mention token, in lower case.
TypedName(content) ==
    LET n == IF StartsWith(content, Prefix) THEN Len(Prefix)
             ELSE CHOOSE k \in MentionLengths(content) : TRUE
    IN  ToLowerCase(Token(Slice(content, n), 1))

\* The step in which the message of call i is parsed and execute reaches a
\* guard, a middleware or the command body.
ParsedAndRunning(i) ==
    inv[i].pc = "prefix" /\ inv'[i].pc \in {"guard", "mw", "body"}

\* C29: the commandName of the context produced for an invocation is the
\* canonical name of the command resolved, also when the message names it
\* by an alias: guards, middlewares and the body see the canonical name.
C29_ContextHasCanonicalName ==
    [][ \A i \in Calls :
          ParsedAndRunning(i) => inv'[i].commandName = inv'[i].cmd.metadata.name ]_vars

\* C29 as amended: the commandName of the context is the name the message
\* spells, lower-cased, and stays so while guards, middlewares and the body
\* run; for an alias it is the alias, and the canonical name is the name
\* in the metadata of the entry resolved.
C29_ContextHasTypedName ==
    [][ \A i \in Calls :
          /\ ParsedAndRunning(i) =>
                /\ inv'[i].commandName = TypedName(inv[i].content)
                /\ Get(Registry, inv'[i].commandName) = inv'[i].cmd
          /\ (inv[i].pc \in {"guard", "mw", "body"} /\ inv'[i].pc # "idle") =>
                inv'[i].commandName = inv[i].commandName ]_vars

\* The body of command pi is running for a message that named it by its
\* alias: the context carries the alias.
C29_Witness ==
    \E i \in Calls :
        /\ inv[i].pc = "body"
        /\ inv[i].commandName = <<"p">>
        /\ inv[i].cmd.metadata.name = <<"p", "i">>


\* The step in which a middleware of call i returns without calling next().
ShortCircuited(i) ==
    /\ inv[i].pc = "mw"
    /\ inv'[i].mwResults = Append(inv[i].mwResults, "skip")

\* C31: when a middleware short-circuits without raising, so that the
\* command body never runs, execute still returns true and, for a command
\* with a cooldown greater than 0, stamps now + cooldown for the command
\* and the author.
C31_ShortCircuitIsHandled ==
    [][ \A i \in Calls :
          ShortCircuited(i) =>
              LET md == inv[i].cmd.metadata
              IN  /\ inv'[i].pc = "done"
                  /\ inv'[i].result = "true"
                  /\ inv'[i].bodyRuns = 0
                  /\ md.cooldown > 0 =>
                        StampOf(cooldowns', md.name, inv[i].authorId) = now + md.cooldown
                  /\ md.cooldown = 0 => cooldowns' = cooldowns ]_vars

\* A middleware short-circuited a call of command pi: the call returned
\* true without running the body and the author's cooldown is stamped.
C31_Witness ==
    \E i \in Calls :
        /\ inv[i].pc = "done"
        /\ inv[i].mwResults # << >>
        /\ inv[i].mwResults[Len(inv[i].mwResults)] = "skip"
        /\ inv[i].bodyRuns = 0
        /\ inv[i].result = "true"
        /\ inv[i].cmd.metadata.name = <<"p", "i">>
        /\ StampOf(cooldowns, <<"p", "i">>, inv[i].authorId) = now + Cool


\* The canonical name of the command a typed name resolves to.
Canonical(typed) == Get(Registry, typed).metadata.name

\* C32: cooldown stamps are kept per command and user, and a command's
\* names share one stamp: a call is blocked only by the unexpired stamp of
\* its own user on the command its name resolves to, whether the name is
\* the canonical one or an alias, so a stamp blocks no other user and no
\* other command; and a call that succeeds, by any of the names, writes
\* that same stamp and leaves every other stamp as it was.
C32_StampsPerCommandAndUser ==
    [][ \A i \in Calls :
          LET u  == inv'[i].authorId
              md == inv'[i].cmd.metadata
              k  == Canonical(inv'[i].commandName)
          IN  /\ Gated(i) =>
                   /\ md.name = k
                   /\ Blocked(i) <=> (md.cooldown > 0 /\ now < StampOf(cooldowns, k, u))
              /\ (Ends(i) /\ inv'[i].result = "true" /\ md.cooldown > 0) =>
                   /\ StampOf(cooldowns', k, u) = now + md.cooldown
                   /\ StampedPairs(cooldowns') = StampedPairs(cooldowns) \cup {<<k, u>>}
                   /\ \A p \in StampedPairs(cooldowns) \ {<<k, u>>} :
                          cooldowns'[p[1]][p[2]] = cooldowns[p[1]][p[2]] ]_vars

\* User u1 called command pi by its alias and was blocked by the stamp kept
\* under the canonical name, while u1's stamp on command ba and u2's stamp
\* on pi are in the tracker too.
C32_Witness ==
    \E i \in Calls :
        /\ inv[i].pc = "done"
        /\ inv[i].commandName = <<"P">>
        /\ inv[i].authorId = "u1"
        /\ inv[i].gate = "cooldown"
        /\ StampedPairs(cooldowns) =
              { <<<<"p", "i">>, "u1">>, <<<<"p", "i">>, "u2">>, <<<<"b", "a">>, "u1">> }
        /\ now < cooldowns[<<"p", "i">>]["u1"]

====
